---- MODULE Spec2Model ----
(***************************************************************************)
(* Tile-windowed geometry pipeline of mapchete:                            *)
(*   mapchete/io/vector.py  reproject_geometry, _reproject_geom,           *)
(*                          read_vector_window, _get_reprojected_features, *)
(*                          write_vector_window, clean_geometry_type       *)
(*   mapchete/io_utils.py   VectorProcessTile.read / is_empty, write_vector*)
(*                                                                         *)
(* Geometries are abstract values of the geometry engine (shapely): a tree *)
(* of typed nodes plus the attributes the code inspects (is_valid,         *)
(* is_empty, the CRS the coordinates are in, the position relative to a    *)
(* bounds rectangle).  What the engine answers for an operation the code   *)
(* cannot predict (does buffer(0) repair it, what does a clip leave over,  *)
(* does a transform break the geometry) is an input drawn with \E.         *)
(***************************************************************************)
EXTENDS Integers, Sequences, FiniteSets, TLC

VARIABLES
    engine,   \* build of the geometry engine: how MultiPolygon(...) treats falsy members
    nz,       \* one call of clean_geometry_type: its arguments and its result
    rp,       \* one call of reproject_geometry: its arguments and its result
    rd,       \* one _get_reprojected_features generator: position, yielded features,
              \* warnings, and what clipping left of the last candidate (clip)
    fs,       \* storage: the set of paths at which a file exists
    wr,       \* one call of the vector writer: its arguments, warnings and outcome
    ct,       \* one VectorProcessTile.read: the window reads it invoked
    rw        \* one read_vector_window: its per-box reads and their dataset handles

vars == <<engine, nz, rp, rd, fs, wr, ct, rw>>

----------------------------------------------------------------------------
(* Bounds of the model *)

\* largest number of nodes (collections and leaves) of a generated geometry tree
MaxNodes == 4

----------------------------------------------------------------------------
(* Geometry values *)

SingleTypes == {"Point", "LineString", "Polygon"}

MultiTypes == {"MultiPoint", "MultiLineString", "MultiPolygon"}

GC == "GeometryCollection"

\* the coordinate data of a non-empty single-part geometry
Coord == [type |-> "xy", ms |-> <<>>]

Node(t, members) == [type |-> t, ms |-> members]

Single(t) == Node(t, <<Coord>>)

\* clean_geometry_type's `return None`
None == Node("None", <<>>)

\* exceptions, as results
TypeError == Node("TypeError", <<>>)

CtorError == Node("CtorError", <<>>)

IsError(g) == g.type \in {"TypeError", "CtorError"}

\* vector.py:311-318, the dictionary multipart_geoms (KeyError outside its keys
\* does not arise: every geometry type reaching a lookup is one of its keys)
multipart_geoms(t) ==
    CASE t \in {"Point", "MultiPoint"} -> "MultiPoint"
      [] t \in {"LineString", "MultiLineString"} -> "MultiLineString"
      [] t \in {"Polygon", "MultiPolygon"} -> "MultiPolygon"

SupportedTypes == SingleTypes \cup MultiTypes

\* shapely's is_empty: no coordinates anywhere below the node
RECURSIVE IsEmpty(_)
IsEmpty(g) ==
    IF g.type = "xy" THEN FALSE
    ELSE \A i \in 1..Len(g.ms) : IsEmpty(g.ms[i])

\* Python truthiness of a clean_geometry_type result: None is falsy, a shapely
\* geometry is truthy iff it is not empty
Truthy(g) == g # None /\ ~IsEmpty(g)

RECURSIVE SelectSeq2(_, _)
\* the members of s that are truthy (kept in order)
SelectSeq2(s, i) ==
    IF i > Len(s) THEN <<>>
    ELSE (IF Truthy(s[i]) THEN <<s[i]>> ELSE <<>>) \o SelectSeq2(s, i + 1)

\* shapely's MultiPoint / MultiLineString / MultiPolygon constructor over a list:
\* an exception raised while the list is built propagates; a member that is not a
\* single-part geometry of the family (None included) makes the constructor
\* raise; the MultiPolygon constructor of some engine builds first filters the
\* falsy members out (lenient).
MultipartCtor(multi, members, lenient) ==
    LET raised == {i \in 1..Len(members) : IsError(members[i])}
        kept == IF lenient /\ multi = "MultiPolygon"
                THEN SelectSeq2(members, 1) ELSE members
        fits(m) == m.type \in SingleTypes /\ multipart_geoms(m.type) = multi
    IN  IF raised # {} THEN members[CHOOSE i \in raised : \A j \in raised : i <= j]
        ELSE IF \E i \in 1..Len(kept) : ~fits(kept[i]) THEN CtorError
        ELSE Node(multi, kept)

RECURSIVE clean_geometry_type(_, _, _, _)
clean_geometry_type(geometry, target_type, allow_multipart, lenient) ==
    IF target_type \notin SupportedTypes THEN TypeError
    ELSE LET multipart_geom == multipart_geoms(target_type) IN
        IF geometry.type = target_type THEN geometry
        ELSE IF geometry.type = GC THEN
            MultipartCtor(
                multipart_geom,
                [i \in 1..Len(geometry.ms) |->
                    clean_geometry_type(geometry.ms[i], target_type, allow_multipart, lenient)],
                lenient)
        ELSE IF allow_multipart /\ geometry.type = multipart_geom THEN geometry
        ELSE IF multipart_geoms(geometry.type) = multipart_geom THEN geometry
        ELSE None

----------------------------------------------------------------------------
(* Generated inputs: geometry trees of at most MaxNodes nodes *)

Leaves ==
    {Single(t) : t \in SingleTypes}
        \cup {Node(multipart_geoms(t), <<Single(t)>>) : t \in SingleTypes}

RECURSIVE TreesOfSize(_)
RECURSIVE ForestsOfSize(_)
\* the trees of exactly n nodes: a leaf, or a collection over a forest of n-1 nodes
TreesOfSize(n) ==
    (IF n = 1 THEN Leaves ELSE {}) \cup {Node(GC, f) : f \in ForestsOfSize(n - 1)}

\* the sequences of trees of n nodes in total
ForestsOfSize(n) ==
    IF n = 0 THEN {<<>>}
    ELSE UNION {{<<t>> \o f : t \in TreesOfSize(k), f \in ForestsOfSize(n - k)} : k \in 1..n}

Trees == UNION {TreesOfSize(n) : n \in 1..MaxNodes}

TargetTypes == SupportedTypes \cup {GC}

----------------------------------------------------------------------------
(* clean_geometry_type as a call *)

NzIdle == [pc |-> "idle"]

NzInit ==
    \E g \in Trees, t \in TargetTypes, a \in BOOLEAN :
        nz = [pc |-> "call", geometry |-> g, target_type |-> t, allow_multipart |-> a,
              result |-> None]

Normalize ==
    /\ nz.pc = "call"
    /\ nz' = [nz EXCEPT !.pc = "done",
                        !.result = clean_geometry_type(nz.geometry, nz.target_type,
                                                       nz.allow_multipart, engine = "lenient")]
    /\ UNCHANGED <<engine, rp, rd, fs, wr, ct, rw>>

----------------------------------------------------------------------------
(* Reprojection engine *)

\* vector.py:74, CRS().from_epsg(4326)
WGS84 == 4326

\* the CRS codes of the model: two with registered bounds, one without
CRSs == {WGS84, 3857, 32633}

\* vector.py:22-29, the keys of CRS_BOUNDS
CRS_BOUNDS == {WGS84, 3857, 3035}

AreaTypes == {"Polygon", "MultiPolygon"}

\* A geometry as reproject_geometry sees it: its shape, is_valid, what
\* buffer(0) makes of it when it is invalid (rep) and where it lies relative to
\* the destination's valid-bounds rectangle (ext).
Geom(sh, valid, rep, ext) == [sh |-> sh, valid |-> valid, rep |-> rep, ext |-> ext]

EmptyPolygon == Node("Polygon", <<>>)

EmptyGC == Node(GC, <<>>)

\* geometry.buffer(0): the zero-width buffer of a point or a line is an empty
\* polygon; of a valid polygonal geometry, itself; of an invalid one, what the
\* engine manages: a repaired geometry, a still invalid one, or nothing.
buffer0(g) ==
    IF g.sh.type \notin AreaTypes \/ IsEmpty(g.sh)
    THEN [g EXCEPT !.sh = EmptyPolygon, !.valid = TRUE, !.rep = "ok"]
    ELSE IF g.valid THEN g
    ELSE CASE g.rep = "ok" -> [g EXCEPT !.valid = TRUE]
           [] g.rep = "bad" -> g
           [] g.rep = "empty" -> [g EXCEPT !.sh = EmptyPolygon, !.valid = TRUE, !.rep = "ok"]

\* shape(transform_geom(src, dst, mapping(geometry))): the transformed geometry
\* keeps its type; o is what the transform did to it: "ok" (valid), or invalid
\* and then "bad" / "empty" is what buffer(0) will make of it.
transform_geom(g, o) == [g EXCEPT !.valid = (o = "ok"), !.rep = o]

Ok(g, crs) == [kind |-> "ok", geom |-> g, crs |-> crs]

NoGeom == Geom(None, FALSE, "ok", "in")

Raise(kind) == [kind |-> kind, geom |-> NoGeom, crs |-> 0]

\* vector.py:93-101
_reproject_geom(geometry, src_crs, dst_crs, validity_check, o) ==
    IF IsEmpty(geometry.sh) \/ src_crs = dst_crs THEN Ok(buffer0(geometry), dst_crs)
    ELSE LET out_geom == buffer0(transform_geom(geometry, o)) IN
        \* `validity_check and not out_geom.is_valid or out_geom.is_empty`
        IF (validity_check /\ ~out_geom.valid) \/ IsEmpty(out_geom.sh)
        THEN Raise("TopologicalError")
        ELSE Ok(out_geom, dst_crs)

\* int(crs) of a numeric string
ParseInt(text) ==
    CASE text = "4326" -> 4326
      [] text = "3857" -> 3857
      [] text = "32633" -> 32633

\* vector.py:104-112; a CRS argument is a CRS object (of an EPSG code), a
\* numeric string or an int; anything else raises TypeError (-1)
_validated_crs(crs) ==
    CASE crs.form = "CRS" -> crs.code
      [] crs.form = "str" -> ParseInt(crs.text)
      [] crs.form = "int" -> crs.code
      [] OTHER -> -1

\* geometry_4326.within(crs_bbox): nothing empty is within anything
within(g) == ~IsEmpty(g.sh) /\ g.ext = "in"

\* an intersection that hands the geometry back whole
intersection_bbox_unclipped(g) ==
    IF IsEmpty(g.sh)
    THEN [g EXCEPT !.sh = EmptyGC, !.valid = TRUE, !.rep = "ok", !.ext = "in"]
    ELSE g

\* crs_bbox.intersection(geometry_4326)
intersection_bbox(g) ==
    IF IsEmpty(g.sh) \/ g.ext = "out"
    THEN [g EXCEPT !.sh = EmptyGC, !.valid = TRUE, !.rep = "ok", !.ext = "in"]
    ELSE [g EXCEPT !.ext = "in"]

\* reproject_geometry without the shortcut for equal CRSs
reproject_geometry_no_shortcut(geometry, src_in, dst_in, error_on_clip, validity_check, o1, o2) ==
    LET src_crs == _validated_crs(src_in)
        dst_crs == _validated_crs(dst_in)
    IN  IF src_crs = -1 \/ dst_crs = -1 THEN Raise("TypeError")
        ELSE IF dst_crs \in CRS_BOUNDS /\ dst_crs # WGS84 THEN
            LET geometry_4326 == _reproject_geom(geometry, src_crs, WGS84, validity_check, o1)
            IN  IF geometry_4326.kind # "ok" THEN geometry_4326
                ELSE IF error_on_clip /\ ~within(geometry_4326.geom) THEN Raise("RuntimeError")
                ELSE _reproject_geom(intersection_bbox(geometry_4326.geom), WGS84, dst_crs,
                                     validity_check, o2)
        ELSE _reproject_geom(geometry, src_crs, dst_crs, TRUE, o1)

\* reproject_geometry raising on every clip, whatever error_on_clip says
reproject_geometry_always_errors(geometry, src_in, dst_in, error_on_clip, validity_check, o1, o2) ==
    LET src_crs == _validated_crs(src_in)
        dst_crs == _validated_crs(dst_in)
    IN  IF src_crs = -1 \/ dst_crs = -1 THEN Raise("TypeError")
        ELSE IF src_crs = dst_crs THEN Ok(buffer0(geometry), dst_crs)
        ELSE IF dst_crs \in CRS_BOUNDS /\ dst_crs # WGS84 THEN
            LET geometry_4326 == _reproject_geom(geometry, src_crs, WGS84, validity_check, o1)
            IN  IF geometry_4326.kind # "ok" THEN geometry_4326
                ELSE IF ~within(geometry_4326.geom) THEN Raise("RuntimeError")
                ELSE _reproject_geom(intersection_bbox(geometry_4326.geom), WGS84, dst_crs,
                                     validity_check, o2)
        ELSE _reproject_geom(geometry, src_crs, dst_crs, TRUE, o1)

\* vector.py:32-90; o1, o2: the engine's answers for the transforms
reproject_geometry(geometry, src_in, dst_in, error_on_clip, validity_check, o1, o2) ==
    LET src_crs == _validated_crs(src_in)
        dst_crs == _validated_crs(dst_in)
    IN  IF src_crs = -1 \/ dst_crs = -1 THEN Raise("TypeError")
        ELSE IF src_crs = dst_crs THEN Ok(buffer0(geometry), dst_crs)
        ELSE IF dst_crs \in CRS_BOUNDS /\ dst_crs # WGS84 THEN
            LET geometry_4326 == _reproject_geom(geometry, src_crs, WGS84, validity_check, o1)
            IN  IF geometry_4326.kind # "ok" THEN geometry_4326
                ELSE IF error_on_clip /\ ~within(geometry_4326.geom) THEN Raise("RuntimeError")
                ELSE _reproject_geom(intersection_bbox(geometry_4326.geom), WGS84, dst_crs,
                                     validity_check, o2)
        ELSE _reproject_geom(geometry, src_crs, dst_crs, TRUE, o1)

TransformOutcomes == {"ok", "bad", "empty"}

\* the geometries handed to reproject_geometry
ReprojectShapes ==
    {Single("Polygon"), Node("MultiPolygon", <<Single("Polygon")>>), Single("LineString"),
     EmptyPolygon}

ReprojectGeoms ==
    {Geom(sh, v, r, e) : sh \in ReprojectShapes, v \in BOOLEAN,
                         r \in TransformOutcomes, e \in {"in", "cross", "out"}}

\* is_valid of an empty geometry is true; rep and ext only matter where read
WellFormed(g) ==
    /\ (IsEmpty(g.sh) => g.valid /\ g.ext = "in")
    /\ (g.valid => g.rep = "ok")
    /\ (g.sh.type \notin AreaTypes => g.valid)

CodeText(c) ==
    CASE c = 4326 -> "4326"
      [] c = 3857 -> "3857"
      [] c = 32633 -> "32633"

CrsArgs ==
    {[form |-> f, code |-> c, text |-> ""] : f \in {"CRS", "int"}, c \in CRSs}
        \cup {[form |-> "str", code |-> 0, text |-> CodeText(c)] : c \in CRSs}
        \cup {[form |-> "other", code |-> 0, text |-> ""]}

\* every geometry transformed into the geographic CRS lies in the rectangle
\* registered for it, the whole globe
Plausible(g, s, d) ==
    (_validated_crs(d) = WGS84 /\ _validated_crs(s) # WGS84) => g.ext = "in"

RpIdle == [pc |-> "idle"]

RpInit ==
    \E g \in {x \in ReprojectGeoms : WellFormed(x)}, s \in CrsArgs, d \in CrsArgs,
       e \in BOOLEAN, v \in BOOLEAN :
        /\ Plausible(g, s, d)
        /\ rp = [pc |-> "call", geometry |-> g, src_crs |-> s, dst_crs |-> d,
                 error_on_clip |-> e, validity_check |-> v, o1 |-> "ok", o2 |-> "ok",
                 result |-> Raise("none")]

Reproject ==
    /\ rp.pc = "call"
    /\ \E o1 \in TransformOutcomes, o2 \in TransformOutcomes :
        rp' = [rp EXCEPT !.pc = "done", !.o1 = o1, !.o2 = o2,
                         !.result = reproject_geometry(rp.geometry, rp.src_crs, rp.dst_crs,
                                        rp.error_on_clip, rp.validity_check, o1, o2)]
    /\ UNCHANGED <<engine, nz, rd, fs, wr, ct, rw>>

----------------------------------------------------------------------------
(* Vector window reader: the generator _get_reprojected_features *)

\* largest number of candidate features one generator processes
MaxFeatures == 2

\* what feature_geom.intersection(dst_bbox) can leave over
ClipShapes ==
    Leaves \cup {EmptyGC,
                 Node(GC, <<Single("Polygon"), Single("LineString")>>),
                 Node(GC, <<Single("LineString"), Single("Point")>>),
                 Node(GC, <<Single("Polygon"), Single("Polygon")>>)}

Dim(t) ==
    CASE t \in {"Point", "MultiPoint"} -> 0
      [] t \in {"LineString", "MultiLineString"} -> 1
      [] t \in {"Polygon", "MultiPolygon"} -> 2

\* a clip never produces parts of a higher dimension than the clipped geometry
ClipOf(t) ==
    {c \in ClipShapes :
        IF c.type = GC THEN \A i \in 1..Len(c.ms) : Dim(c.ms[i].type) <= Dim(t)
        ELSE Dim(c.type) <= Dim(t)}

\* feature_geom.intersection(box): valid, empty when the geometry is empty
intersection(g, c) ==
    [g EXCEPT !.sh = IF IsEmpty(g.sh) THEN EmptyGC ELSE c, !.valid = TRUE, !.rep = "ok"]

\* the candidate features of a source: the geometry, what clipping it to the
\* filter box leaves over, and what a transform does to it
Candidates ==
    {[geom |-> g, clip |-> c, o |-> o] :
        g \in {x \in ReprojectGeoms : WellFormed(x) /\ x.sh \in {Single("Polygon"), Single("LineString")}},
        c \in ClipShapes, o \in TransformOutcomes}

CrsObj(c) == [form |-> "CRS", code |-> c, text |-> ""]

\* box(*dst_bounds): a valid polygon
BoxGeom == Geom(Single("Polygon"), TRUE, "ok", "in")

\* vector.py:248-257: fiona.open and the filter box; io is whether the dataset
\* opens, o what the transform does to the box
OpenSource(r, io, o) ==
    IF io = "fails" THEN [r EXCEPT !.pc = "raised", !.err = "IOError", !.last = "open"]
    ELSE IF r.vector_crs # r.dst_crs
            /\ reproject_geometry(BoxGeom, CrsObj(r.dst_crs), CrsObj(r.vector_crs),
                                  FALSE, TRUE, o, o).kind # "ok"
    THEN [r EXCEPT !.pc = "raised", !.err = "TopologicalError", !.last = "open"]
    ELSE [r EXCEPT !.pc = "open", !.last = "open"]

Yielded(f, g, crs) ==
    [src_type |-> f.geom.sh.type, type |-> g.sh.type, crs |-> crs, valid |-> g.valid,
     empty |-> IsEmpty(g.sh), ext |-> g.ext]

\* vector.py:258-289: the body of the loop for one candidate feature f
ProcessFeature(r, f, lenient) ==
    LET counted == [r EXCEPT !.n = r.n + 1, !.clip = f.clip]
        repaired == IF f.geom.valid THEN f.geom ELSE buffer0(f.geom)
    IN  IF ~repaired.valid
        THEN [counted EXCEPT !.warnings = r.warnings + 1, !.last = "broken"]
        ELSE
        LET clipped == intersection(repaired, f.clip)
            cleaned == clean_geometry_type(clipped.sh, repaired.sh.type, TRUE, lenient)
            geom == [clipped EXCEPT !.sh = cleaned]
        IN  IF IsError(cleaned)
            THEN [counted EXCEPT !.pc = "raised", !.err = cleaned.type, !.last = "clean"]
            ELSE IF ~Truthy(cleaned)
            THEN [counted EXCEPT !.warnings = r.warnings + 1, !.last = "type"]
            ELSE IF r.vector_crs = r.dst_crs /\ r.validity_check
            THEN IF geom.valid
                 THEN [counted EXCEPT !.out = Append(r.out, Yielded(f, geom, r.vector_crs)),
                                      !.last = "yield"]
                 ELSE [counted EXCEPT !.pc = "raised", !.err = "AssertionError",
                                      !.last = "assert"]
            ELSE
            LET res == reproject_geometry(geom, CrsObj(r.vector_crs), CrsObj(r.dst_crs),
                                          FALSE, r.validity_check, f.o, f.o)
            IN  IF res.kind = "ok"
                THEN [counted EXCEPT !.out = Append(r.out, Yielded(f, res.geom, res.crs)),
                                     !.last = "yield"]
                ELSE IF res.kind = "TopologicalError"
                \* the warning is recorded and control falls through to the yield
                THEN [counted EXCEPT !.warnings = r.warnings + 1,
                                     !.out = Append(r.out, Yielded(f, geom, r.vector_crs)),
                                     !.last = "reproject"]
                ELSE [counted EXCEPT !.pc = "raised", !.err = res.kind, !.last = "reproject"]

RdIdle == [pc |-> "idle"]

RdInit ==
    \E v \in {WGS84, 32633}, d \in {WGS84, 3857}, c \in BOOLEAN :
        rd = [pc |-> "new", vector_crs |-> v, dst_crs |-> d, validity_check |-> c,
              n |-> 0, out |-> <<>>, warnings |-> 0, err |-> "none", last |-> "none",
              clip |-> None]

\* the first next(): the generator body runs up to the loop
RdOpen ==
    /\ rd.pc = "new"
    /\ \E io \in {"ok", "fails"}, o \in TransformOutcomes : rd' = OpenSource(rd, io, o)
    /\ UNCHANGED <<engine, nz, rp, fs, wr, ct, rw>>

\* the loop body for the next candidate of vector.filter(...)
RdFeature ==
    /\ rd.pc = "open"
    /\ rd.n < MaxFeatures
    /\ \E f \in Candidates :
        /\ f.clip \in ClipOf(f.geom.sh.type)
        /\ rd' = ProcessFeature(rd, f, engine = "lenient")
    /\ UNCHANGED <<engine, nz, rp, fs, wr, ct, rw>>

\* vector.filter(...) is exhausted: the with block closes the dataset
RdExhausted ==
    /\ rd.pc = "open"
    /\ rd' = [rd EXCEPT !.pc = "done", !.last = "end"]
    /\ UNCHANGED <<engine, nz, rp, fs, wr, ct, rw>>

----------------------------------------------------------------------------
(* Vector window writer *)

TilePath(col) == <<"tile", col>>

\* the result of the filtering loop so far: the features kept and the warnings
RECURSIVE FilterFeatures(_, _, _, _)
\* vector.py:217-233; a feature is given by clipped, what
\* feature_geom.intersection(out_tile.bbox) leaves of it
FilterFeatures(in_data, i, target_type, lenient) ==
    IF i > Len(in_data) THEN [out |-> <<>>, warnings |-> 0]
    ELSE
    LET rest == FilterFeatures(in_data, i + 1, target_type, lenient)
        clipped == in_data[i]
        cleaned == IF clipped.type # target_type
                   THEN clean_geometry_type(clipped, target_type, TRUE, lenient)
                   ELSE clipped
    IN  IF IsError(cleaned)
        \* except Exception: warn and continue
        THEN [rest EXCEPT !.warnings = rest.warnings + 1]
        ELSE IF Truthy(cleaned) THEN [rest EXCEPT !.out = <<cleaned>> \o rest.out]
        ELSE rest

WrResult(pc, err, files, warnings, written) ==
    [pc |-> pc, err |-> err, files |-> files, warnings |-> warnings, written |-> written]

\* write_vector_window without its os.remove(out_path): a stale file stays
write_vector_window_keeps_stale(in_data, target_type, out_path, files, io, lenient) ==
    LET kept == FilterFeatures(in_data, 1, target_type, lenient)
    IN  IF in_data = <<>> THEN WrResult("returned", "none", files, 0, 0)
        ELSE IF kept.out = <<>> THEN WrResult("returned", "none", files, kept.warnings, 0)
        ELSE CASE io = "ok" ->
                    WrResult("returned", "none", files \cup {out_path}, kept.warnings,
                             Len(kept.out))
               [] io = "open_fails" ->
                    WrResult("raised", "IOError", files, kept.warnings, 0)
               [] io = "write_fails" ->
                    WrResult("raised", "IOError", files \cup {out_path}, kept.warnings, 0)

\* vector.py:193-242; files is the storage before the call, io what the dataset
\* layer does: "ok", "open_fails" (nothing created), "write_fails" (the file was
\* created and a dst.write raised; the with block closes it)
write_vector_window(in_data, target_type, out_path, files, io, lenient) ==
    LET removed == files \ {out_path}
        kept == FilterFeatures(in_data, 1, target_type, lenient)
    IN  IF in_data = <<>> THEN WrResult("returned", "none", removed, 0, 0)
        ELSE IF kept.out = <<>> THEN WrResult("returned", "none", removed, kept.warnings, 0)
        ELSE CASE io = "ok" ->
                    WrResult("returned", "none", removed \cup {out_path}, kept.warnings,
                             Len(kept.out))
               [] io = "open_fails" ->
                    WrResult("raised", "IOError", removed, kept.warnings, 0)
               [] io = "write_fails" ->
                    WrResult("raised", "IOError", removed \cup {out_path}, kept.warnings, 0)

\* io_utils.py:912-929, the file branch of write_vector
write_vector(in_data, target_type, out_path, files, io, lenient) ==
    LET res == write_vector_window(in_data, target_type, out_path, files \ {out_path},
                                   io, lenient)
    IN  IF res.pc = "raised" THEN [res EXCEPT !.files = res.files \ {out_path}] ELSE res

WriterTargets == {"Polygon", "MultiPolygon", "LineString", GC}

RECURSIVE SeqsUpTo(_, _)
\* the sequences over S of length at most n
SeqsUpTo(S, n) ==
    IF n = 0 THEN {<<>>}
    ELSE SeqsUpTo(S, n - 1) \cup {Append(q, x) : q \in {r \in SeqsUpTo(S, n - 1) : Len(r) = n - 1}, x \in S}

OutPath == TilePath(0)

WrIdle == [pc |-> "idle"]

WrInit ==
    /\ fs \in {{}, {OutPath}}
    /\ \E d \in SeqsUpTo(ClipShapes, MaxFeatures), t \in WriterTargets :
        wr = [pc |-> "call", entry |-> "none", in_data |-> d, target_type |-> t,
              stale |-> (OutPath \in fs), io |-> "ok", err |-> "none",
              warnings |-> 0, written |-> 0]

WrDone(res, entry, io) ==
    /\ wr' = [wr EXCEPT !.pc = res.pc, !.entry = entry, !.io = io, !.err = res.err,
                        !.warnings = res.warnings, !.written = res.written]
    /\ fs' = res.files

\* a caller invokes mapchete.io.vector.write_vector_window
WriteVectorWindow ==
    /\ wr.pc = "call"
    /\ \E io \in {"ok", "open_fails", "write_fails"} :
        WrDone(write_vector_window(wr.in_data, wr.target_type, OutPath, fs, io,
                                   engine = "lenient"),
               "write_vector_window", io)
    /\ UNCHANGED <<engine, nz, rp, rd, ct, rw>>

\* a caller invokes io_utils.write_vector for a file output
WriteVector ==
    /\ wr.pc = "call"
    /\ \E io \in {"ok", "open_fails", "write_fails"} :
        WrDone(write_vector(wr.in_data, wr.target_type, OutPath, fs, io,
                            engine = "lenient"),
               "write_vector", io)
    /\ UNCHANGED <<engine, nz, rp, rd, ct, rw>>

----------------------------------------------------------------------------
(* Virtual composite tile over a process output: VectorProcessTile *)

\* the columns of the row of tiles at the zoom of the destination tile: 0..MaxCol
MaxCol == 2

\* how many times the external writer changes storage during one read
MaxExternal == 1

Cols == 0..MaxCol

\* metatiling of the process pyramid relative to the pyramid of the destination
\* tile: a process tile spans that many columns of the destination's pyramid
Metatilings == {1, 2}

\* the columns of the process pyramid
ProcessCols(metatiling) == 0..(MaxCol \div metatiling)

RECURSIVE ColsFrom(_, _)
\* the columns lo..hi in ascending order
ColsFrom(lo, hi) == IF lo > hi THEN <<>> ELSE <<lo>> \o ColsFrom(lo + 1, hi)

\* process.tile_pyramid.tiles_from_bbox(self.tile.bbox(pixelbuffer), zoom): the
\* tiles of the process pyramid that the buffered box of the destination
\* overlaps; with a buffer the box reaches into the neighbouring columns
tiles_from_bbox(dst, pixelbuffer, metatiling) ==
    LET lo == IF pixelbuffer = 0 \/ dst = 0 THEN dst ELSE dst - 1
        hi == IF pixelbuffer = 0 \/ dst = MaxCol THEN dst ELSE dst + 1
    IN  ColsFrom(lo \div metatiling, hi \div metatiling)

\* the call read_vector_window(tile.path, tile, pixelbuffer=self.pixelbuffer)
WindowRead(tile, pixelbuffer) ==
    [path |-> TilePath(tile), window |-> tile, pixelbuffer |-> pixelbuffer]

CtIdle == [pc |-> "idle"]

CtInit ==
    /\ \E d \in Cols, b \in {0, 1}, m \in Metatilings :
        /\ fs \in SUBSET {TilePath(c) : c \in ProcessCols(m)}
        /\ ct = [pc |-> "new", dst |-> d, pixelbuffer |-> b, metatiling |-> m,
              no_neighbors |-> FALSE,
              src_tiles |-> <<>>, i |-> 0, reads |-> <<>>, opened |-> <<>>,
              pending |-> FALSE, err |-> "none", ext |-> 0,
              asked |-> FALSE, empty |-> FALSE]

\* read() whose no_neighbors mode reads the tile without asking whether it exists
CtRead_unchecked ==
    /\ ct.pc = "new"
    /\ \E nn \in BOOLEAN :
        IF nn
        THEN ct' = [ct EXCEPT !.pc = "reading", !.no_neighbors = TRUE,
                              !.src_tiles = <<ct.dst>>, !.i = 1,
                              !.reads = <<WindowRead(ct.dst, ct.pixelbuffer)>>,
                              !.pending = TRUE]
        ELSE ct' = [ct EXCEPT !.pc = "reading",
                              !.src_tiles = tiles_from_bbox(ct.dst, ct.pixelbuffer,
                                                            ct.metatiling)]
    /\ UNCHANGED <<engine, nz, rp, rd, fs, wr, rw>>

\* io_utils.py:72-107, the call read(): in no_neighbors mode the existence test
\* and the window read are made at once, on the process tile that has the
\* zoom, row and column of the destination (self.process.tile(self.tile)); else
\* the lazy chain is built
CtRead ==
    /\ ct.pc = "new"
    /\ \E nn \in BOOLEAN :
        IF nn
        THEN IF TilePath(ct.dst) \in fs
             THEN ct' = [ct EXCEPT !.pc = "reading", !.no_neighbors = TRUE,
                                   !.src_tiles = <<ct.dst>>, !.i = 1,
                                   !.reads = <<WindowRead(ct.dst, ct.pixelbuffer)>>,
                                   !.pending = TRUE]
             ELSE ct' = [ct EXCEPT !.pc = "done", !.no_neighbors = TRUE]
        ELSE ct' = [ct EXCEPT !.pc = "reading",
                              !.src_tiles = tiles_from_bbox(ct.dst, ct.pixelbuffer,
                                                            ct.metatiling)]
    /\ UNCHANGED <<engine, nz, rp, rd, fs, wr, rw>>

\* the chain invoking the window read of every covering tile, existing or not
CtNext_unconditional ==
    /\ ct.pc = "reading"
    /\ ~ct.pending
    /\ ct.i < Len(ct.src_tiles)
    /\ LET tile == ct.src_tiles[ct.i + 1] IN
        ct' = [ct EXCEPT !.i = ct.i + 1,
                         !.reads = Append(ct.reads, WindowRead(tile, ct.pixelbuffer)),
                         !.pending = TRUE]
    /\ UNCHANGED <<engine, nz, rp, rd, fs, wr, rw>>

\* io_utils.py:99-107: the chain takes the next covering tile; `if tile.exists()`
\* is evaluated now and the window read of an existing tile is invoked
CtNext ==
    /\ ct.pc = "reading"
    /\ ~ct.pending
    /\ ct.i < Len(ct.src_tiles)
    /\ LET tile == ct.src_tiles[ct.i + 1] IN
        IF TilePath(tile) \in fs
        THEN ct' = [ct EXCEPT !.i = ct.i + 1,
                              !.reads = Append(ct.reads, WindowRead(tile, ct.pixelbuffer)),
                              !.pending = TRUE]
        ELSE ct' = [ct EXCEPT !.i = ct.i + 1]
    /\ UNCHANGED <<engine, nz, rp, rd, fs, wr, rw>>

\* the consumer asks the invoked window read for its first feature: the
\* generator opens the path (vector.py:248) and is drained
CtOpen ==
    /\ ct.pc = "reading"
    /\ ct.pending
    /\ LET r == ct.reads[Len(ct.reads)] IN
        IF r.path \in fs
        THEN ct' = [ct EXCEPT !.pending = FALSE, !.opened = Append(ct.opened, r.path)]
        ELSE ct' = [ct EXCEPT !.pc = "raised", !.pending = FALSE, !.err = "IOError"]
    /\ UNCHANGED <<engine, nz, rp, rd, fs, wr, rw>>

\* the chain is exhausted
CtExhausted ==
    /\ ct.pc = "reading"
    /\ ~ct.pending
    /\ ct.i = Len(ct.src_tiles)
    /\ ct' = [ct EXCEPT !.pc = "done"]
    /\ UNCHANGED <<engine, nz, rp, rd, fs, wr, rw>>

\* is_empty looking at the destination tile alone
is_empty_own_tile(dst, pixelbuffer, metatiling, files) == TilePath(dst) \notin files

\* io_utils.py:109-131: tile_paths holds the paths of the covering tiles that
\* exist; the answer is whether it is empty
is_empty(dst, pixelbuffer, metatiling, files) ==
    LET src_tiles == tiles_from_bbox(dst, pixelbuffer, metatiling)
        tile_paths == SelectSeq(src_tiles, LAMBDA tile : TilePath(tile) \in files)
    IN  tile_paths = <<>>

\* the call is_empty() of the composite tile, before it is read
CtIsEmpty ==
    /\ ct.pc = "new"
    /\ ~ct.asked
    /\ ct' = [ct EXCEPT !.asked = TRUE, !.empty = is_empty(ct.dst, ct.pixelbuffer, ct.metatiling, fs)]
    /\ UNCHANGED <<engine, nz, rp, rd, fs, wr, rw>>

\* another process writes or removes the output of an underlying tile
ExternalWriter ==
    /\ ct.pc \in {"new", "reading"}
    /\ ct.ext < MaxExternal
    /\ \E c \in ProcessCols(ct.metatiling) :
        fs' = IF TilePath(c) \in fs THEN fs \ {TilePath(c)} ELSE fs \cup {TilePath(c)}
    /\ ct' = [ct EXCEPT !.ext = ct.ext + 1]
    /\ UNCHANGED <<engine, nz, rp, rd, wr, rw>>

----------------------------------------------------------------------------
(* read_vector_window: the per-box reads of one tile and their dataset handles *)

\* tiles per side of the pyramid at the zoom of the tile
GridSize == 3

\* width and height of a tile in map units
TileSize == 2

\* largest pixelbuffer of a tile, in map units
MaxPixelbuffer == 2

\* tile.tile_pyramid.left / bottom / right / top
PyramidBounds == [left |-> 0, bottom |-> 0, right |-> GridSize * TileSize,
                  top |-> GridSize * TileSize]

Box(l, b, r, t) == [left |-> l, bottom |-> b, right |-> r, top |-> t]

\* tile.bounds of a buffered tile
TileBounds(col, row, pixelbuffer) ==
    Box(col * TileSize - pixelbuffer, row * TileSize - pixelbuffer,
        (col + 1) * TileSize + pixelbuffer, (row + 1) * TileSize + pixelbuffer)

Max(a, b) == IF a > b THEN a ELSE b

Min(a, b) == IF a < b THEN a ELSE b

\* the part of a box inside the pyramid, and its parts beyond the left and the
\* right edge shifted by the width of the pyramid
InsidePart(bx, pyr) ==
    Box(Max(bx.left, pyr.left), Max(bx.bottom, pyr.bottom),
        Min(bx.right, pyr.right), Min(bx.top, pyr.top))

WestPart(bx, pyr) ==
    Box(bx.left + (pyr.right - pyr.left), bx.bottom, pyr.right, bx.top)

EastPart(bx, pyr) ==
    Box(pyr.left, bx.bottom, bx.right - (pyr.right - pyr.left), bx.top)

\* what clip_geometry_to_srs_bounds(tile.bbox, tile.tile_pyramid, multipart=True)
\* of the tilematrix library may return: a list of at least one box
SplitterAnswers(bx, pyr) ==
    {<<InsidePart(bx, pyr)>>,
     <<InsidePart(bx, pyr), WestPart(bx, pyr)>>,
     <<InsidePart(bx, pyr), EastPart(bx, pyr)>>,
     <<InsidePart(bx, pyr), WestPart(bx, pyr), EastPart(bx, pyr)>>,
     <<InsidePart(bx, pyr), EastPart(bx, pyr), WestPart(bx, pyr)>>}

\* read_vector_window reading the tile's own bounds whatever the tile
read_vector_window_unsplit(bounds, pixelbuffer, pyr, tile_boxes) == <<bounds>>

\* vector.py:167-190: the dst_bounds of the per-box reads the returned sequence
\* is made of, in its order; tile_boxes is the splitter's answer
read_vector_window(bounds, pixelbuffer, pyr, tile_boxes) ==
    LET touches_left == bounds.left <= pyr.left
        touches_bottom == bounds.bottom <= pyr.bottom
        touches_right == bounds.right >= pyr.right
        touches_top == bounds.top >= pyr.top
        is_on_edge == touches_left \/ touches_bottom \/ touches_right \/ touches_top
    IN  IF pixelbuffer # 0 /\ is_on_edge THEN tile_boxes ELSE <<bounds>>

RwIdle == [pc |-> "idle"]

RwInit ==
    \E c \in 0..(GridSize - 1), r \in 0..(GridSize - 1), b \in 0..MaxPixelbuffer :
        rw = [pc |-> "new", col |-> c, row |-> r, pixelbuffer |-> b,
              tile_boxes |-> <<>>, boxes |-> <<>>, k |-> 0, handles |-> {},
              reads |-> <<>>, n |-> 0, err |-> "none"]

\* vector.py:146-190, the call: the boxes are fixed; the per-box reads are
\* generators, none has run yet and nothing is opened
RwCall ==
    /\ rw.pc = "new"
    /\ LET bounds == TileBounds(rw.col, rw.row, rw.pixelbuffer) IN
        \E tile_boxes \in SplitterAnswers(bounds, PyramidBounds) :
            LET boxes == read_vector_window(bounds, rw.pixelbuffer, PyramidBounds, tile_boxes)
            IN  rw' = [rw EXCEPT !.pc = "lazy", !.tile_boxes = tile_boxes, !.boxes = boxes]
    /\ UNCHANGED <<engine, nz, rp, rd, fs, wr, ct>>

\* the consumer asks for a feature while no per-box read is running: the chain
\* (vector.py:179-184) creates the read of the next box, which opens the source
\* (vector.py:248) or fails to
RwOpen ==
    /\ rw.pc = "lazy"
    /\ rw.k \notin rw.handles
    /\ rw.k < Len(rw.boxes)
    /\ \E io \in {"ok", "open_fails"} :
        rw' = [rw EXCEPT !.k = rw.k + 1,
                         !.reads = Append(rw.reads, rw.boxes[rw.k + 1]),
                         !.n = 0,
                         !.handles = IF io = "ok" THEN rw.handles \cup {rw.k + 1}
                                     ELSE rw.handles,
                         !.pc = IF io = "ok" THEN "lazy" ELSE "raised",
                         !.err = IF io = "ok" THEN "none" ELSE "IOError"]
    /\ UNCHANGED <<engine, nz, rp, rd, fs, wr, ct>>

\* vector.py:258-289, one more feature of the running per-box read: it is
\* yielded, or the loop body raises and the with block (vector.py:248) is left
RwFeature ==
    /\ rw.pc = "lazy"
    /\ rw.k \in rw.handles
    /\ rw.n < MaxFeatures
    /\ \E outcome \in {"yield", "raise"} :
        rw' = IF outcome = "yield" THEN [rw EXCEPT !.n = rw.n + 1]
              ELSE [rw EXCEPT !.pc = "raised", !.err = "loop", !.handles = rw.handles \ {rw.k}]
    /\ UNCHANGED <<engine, nz, rp, rd, fs, wr, ct>>

\* the source has no more features: the generator ends and the with block
\* (vector.py:248) closes the handle
RwBoxExhausted ==
    /\ rw.pc = "lazy"
    /\ rw.k \in rw.handles
    /\ rw' = [rw EXCEPT !.handles = rw.handles \ {rw.k}]
    /\ UNCHANGED <<engine, nz, rp, rd, fs, wr, ct>>

\* the chain has no box left
RwDrained ==
    /\ rw.pc = "lazy"
    /\ rw.k \notin rw.handles
    /\ rw.k = Len(rw.boxes)
    /\ rw' = [rw EXCEPT !.pc = "done"]
    /\ UNCHANGED <<engine, nz, rp, rd, fs, wr, ct>>

\* a sequence dropped with its dataset left open
RwDiscard_leaks ==
    /\ rw.pc = "lazy"
    /\ rw' = [rw EXCEPT !.pc = "discarded"]
    /\ UNCHANGED <<engine, nz, rp, rd, fs, wr, ct>>

\* the consumer drops the sequence: the running generator is closed, which
\* leaves its with block (vector.py:248)
RwDiscard ==
    /\ rw.pc = "lazy"
    /\ rw' = [rw EXCEPT !.pc = "discarded", !.handles = {}]
    /\ UNCHANGED <<engine, nz, rp, rd, fs, wr, ct>>

----------------------------------------------------------------------------
(* Specifications *)

InitNormalize ==
    /\ engine \in {"strict", "lenient"}
    /\ NzInit
    /\ rp = RpIdle
    /\ rd = RdIdle
    /\ fs = {}
    /\ wr = WrIdle
    /\ ct = CtIdle
    /\ rw = RwIdle

SpecNormalize == InitNormalize /\ [][Normalize]_vars

InitReproject ==
    /\ engine = "strict"
    /\ nz = NzIdle
    /\ RpInit
    /\ rd = RdIdle
    /\ fs = {}
    /\ wr = WrIdle
    /\ ct = CtIdle
    /\ rw = RwIdle

SpecReproject == InitReproject /\ [][Reproject]_vars

InitReader ==
    /\ engine \in {"strict", "lenient"}
    /\ nz = NzIdle
    /\ rp = RpIdle
    /\ RdInit
    /\ fs = {}
    /\ wr = WrIdle
    /\ ct = CtIdle
    /\ rw = RwIdle

SpecReader == InitReader /\ [][RdOpen \/ RdFeature \/ RdExhausted]_vars

InitWriter ==
    /\ engine \in {"strict", "lenient"}
    /\ nz = NzIdle
    /\ rp = RpIdle
    /\ rd = RdIdle
    /\ WrInit
    /\ ct = CtIdle
    /\ rw = RwIdle

SpecWriter == InitWriter /\ [][WriteVectorWindow \/ WriteVector]_vars

InitComposite ==
    /\ engine = "strict"
    /\ nz = NzIdle
    /\ rp = RpIdle
    /\ rd = RdIdle
    /\ wr = WrIdle
    /\ CtInit
    /\ rw = RwIdle

NextComposite == CtRead \/ CtNext \/ CtOpen \/ CtExhausted \/ CtIsEmpty \/ ExternalWriter

SpecComposite == InitComposite /\ [][NextComposite]_vars

InitWindow ==
    /\ engine = "strict"
    /\ nz = NzIdle
    /\ rp = RpIdle
    /\ rd = RdIdle
    /\ fs = {}
    /\ wr = WrIdle
    /\ ct = CtIdle
    /\ RwInit

NextWindow == RwCall \/ RwOpen \/ RwFeature \/ RwBoxExhausted \/ RwDrained \/ RwDiscard

SpecWindow == InitWindow /\ [][NextWindow]_vars

----------------------------------------------------------------------------
(* Claims *)

\* C1: every feature the reader has yielded carries a geometry expressed in the
\* CRS of the tile: a feature whose reprojection failed with a topology error
\* is skipped, not yielded.
C1_YieldedInTileCRS ==
    \A i \in 1..Len(rd.out) : rd.out[i].crs = rd.dst_crs

\* C2: every window read that VectorProcessTile.read invokes is given the
\* stored path of a covering tile as its source and the destination tile as
\* its target window.
C2_WindowIsDestination ==
    \A i \in 1..Len(ct.reads) :
        /\ ct.reads[i].path \in {TilePath(c) : c \in Cols}
        /\ ct.reads[i].window = ct.dst

\* a feature survives the writer's clipping and type normalization: what is left
\* of it in the tile is of the output type, or normalizes to it, and is not empty
Survives(clipped, target_type) ==
    IF clipped.type = target_type THEN ~IsEmpty(clipped)
    ELSE LET n == clean_geometry_type(clipped, target_type, TRUE, engine = "lenient")
         IN  ~IsError(n) /\ n # None /\ ~IsEmpty(n)

\* C3: after the writer returns normally, the destination file exists if and
\* only if at least one input feature survived clipping and type normalization,
\* whether or not a file was there before the call.
C3_FileIffSurvivor ==
    wr.pc = "returned" =>
        ((OutPath \in fs) <=>
            \E i \in 1..Len(wr.in_data) : Survives(wr.in_data[i], wr.target_type))

\* C3, its case: a stale file was at the destination, features were given, all
\* of them were dropped, and the call returned leaving no file
C3_StaleFileGone ==
    /\ wr.pc = "returned"
    /\ wr.stale
    /\ wr.in_data # <<>>
    /\ \A i \in 1..Len(wr.in_data) : ~Survives(wr.in_data[i], wr.target_type)
    /\ OutPath \notin fs

\* C4: when a dataset-level failure of the write phase reaches the caller of the
\* writer, no file exists at the destination path.
C4_NoFileOnWriteFailure ==
    wr.pc = "raised" => OutPath \notin fs

\* C5: the writer records a warning for every input feature it does not write:
\* the warnings are at least as many as the dropped features.
C5_WarningPerDrop ==
    wr.pc = "returned" => wr.warnings >= Len(wr.in_data) - wr.written

\* C6: no defect of a candidate feature aborts the reader's stream: an error
\* reaches the caller only from opening the dataset, never from the loop body.
C6_NoFeatureAborts ==
    rd.pc = "raised" => rd.last = "open"

\* C7: for a supported target type, what clean_geometry_type returns is None or
\* a geometry of exactly the target type or of the multipart type of its family.
C7_ResultTypeIsTarget ==
    (nz.pc = "done" /\ nz.target_type \in SupportedTypes /\ ~IsError(nz.result)) =>
        \/ nz.result = None
        \/ nz.result.type \in {nz.target_type, multipart_geoms(nz.target_type)}

RECURSIVE Survivors(_, _, _, _)
\* the members of a collection normalized against the target, the None ones discarded
Survivors(members, i, target_type, allow_multipart) ==
    IF i > Len(members) THEN <<>>
    ELSE LET n == clean_geometry_type(members[i], target_type, allow_multipart,
                                      engine = "lenient")
         IN  (IF n = None THEN <<>> ELSE <<n>>)
                \o Survivors(members, i + 1, target_type, allow_multipart)

\* C8: given a GeometryCollection, clean_geometry_type raises nothing and returns
\* the multipart geometry of the target's family built from the members that
\* normalize, the members that yield None discarded.
C8_CollectionKeepsSurvivors ==
    (nz.pc = "done" /\ nz.target_type \in SupportedTypes /\ nz.geometry.type = GC) =>
        nz.result = Node(multipart_geoms(nz.target_type),
                         Survivors(nz.geometry.ms, 1, nz.target_type, nz.allow_multipart))

\* both CRS arguments resolve and name different CRSs
NonIdentity == 
    /\ _validated_crs(rp.src_crs) # -1
    /\ _validated_crs(rp.dst_crs) # -1
    /\ _validated_crs(rp.src_crs) # _validated_crs(rp.dst_crs)

\* C9: with validity_check set and differing CRSs, a geometry that
\* reproject_geometry returns is valid and not empty.
C9_NoEmptySuccess ==
    (rp.pc = "done" /\ NonIdentity /\ rp.validity_check /\ rp.result.kind = "ok") =>
        rp.result.geom.valid /\ ~IsEmpty(rp.result.geom.sh)

\* C10: with validity_check unset, reproject_geometry never fails with a
\* topology error.
C10_NoTopologyErrorUnchecked ==
    (rp.pc = "done" /\ ~rp.validity_check) => rp.result.kind # "TopologicalError"

Resolved ==
    /\ _validated_crs(rp.src_crs) # -1
    /\ _validated_crs(rp.dst_crs) # -1

Returned == rp.pc = "done" /\ rp.result.kind = "ok"

\* C11 as stated: for every destination CRS with registered bounds and every
\* source CRS, the destination itself included, a returned geometry lies
\* within the destination's bounds rectangle.
C11_ReturnedWithinBounds ==
    (Returned /\ Resolved /\ _validated_crs(rp.dst_crs) \in CRS_BOUNDS) =>
        rp.result.geom.ext = "in"

\* C11 amended: for every destination CRS with registered bounds and every
\* source CRS other than the destination, a returned geometry lies within the
\* destination's bounds rectangle; with source equal to destination the
\* geometry is not clipped.
C11_ReprojectedWithinBounds ==
    (Returned /\ NonIdentity /\ _validated_crs(rp.dst_crs) \in CRS_BOUNDS) =>
        rp.result.geom.ext = "in"

C11_ClippedToBounds ==
    /\ Returned /\ NonIdentity
    /\ _validated_crs(rp.dst_crs) = 3857
    /\ rp.geometry.ext = "cross"
    /\ ~IsEmpty(rp.result.geom.sh)
    /\ rp.result.geom.ext = "in"

\* the geometry reprojected to the geographic CRS, the first step of the
\* clipping branch
Geographic ==
    _reproject_geom(rp.geometry, _validated_crs(rp.src_crs), WGS84, rp.validity_check, rp.o1)

BoundsViolationDue ==
    /\ rp.error_on_clip
    /\ NonIdentity
    /\ _validated_crs(rp.dst_crs) \in CRS_BOUNDS
    /\ _validated_crs(rp.dst_crs) # WGS84
    /\ Geographic.kind = "ok"
    /\ ~within(Geographic.geom)

C13_IdentityIsRepair ==
    (rp.pc = "done" /\ Resolved
        /\ _validated_crs(rp.src_crs) = _validated_crs(rp.dst_crs)) =>
            rp.result = Ok(buffer0(rp.geometry), _validated_crs(rp.dst_crs))

C13_IdentityAcrossForms ==
    /\ rp.pc = "done"
    /\ rp.src_crs.form = "str" /\ rp.dst_crs.form = "CRS"
    /\ ParseInt(rp.src_crs.text) = 3857 /\ rp.dst_crs.code = 3857
    /\ rp.error_on_clip /\ rp.validity_check
    /\ rp.geometry.ext = "cross" /\ ~rp.geometry.valid /\ rp.geometry.rep = "bad"
    /\ rp.result.kind = "ok" /\ ~rp.result.geom.valid


RECURSIVE ExistingReads(_, _)
\* the window reads of the tiles of a sequence that exist, in its order
ExistingReads(tiles, i) ==
    IF i > Len(tiles) THEN <<>>
    ELSE (IF TilePath(tiles[i]) \in fs THEN <<WindowRead(tiles[i], ct.pixelbuffer)>> ELSE <<>>)
            \o ExistingReads(tiles, i + 1)

PathsOf(reads) == [k \in 1..Len(reads) |-> reads[k].path]

\* the tiles that intersect the buffered box of the destination tile
Covering ==
    {p \in ProcessCols(ct.metatiling) :
        \E c \in Cols : /\ c \div ct.metatiling = p
                        /\ c - ct.dst <= ct.pixelbuffer /\ ct.dst - c <= ct.pixelbuffer}

\* C14: with storage unchanged, the composite read in neighbors mode raises
\* nothing, and once drained it has read the windows of exactly the covering
\* tiles that exist, in covering-tile order: none when no covering tile exists.
C14_ConcatenationOfExisting ==
    (~ct.no_neighbors /\ ct.ext = 0 /\ ct.pc \in {"reading", "done", "raised"}) =>
        /\ ct.pc # "raised"
        /\ ct.pc = "done" =>
            /\ ct.reads = ExistingReads(SelectSeq(ColsFrom(0, MaxCol),
                                                  LAMBDA c : c \in Covering), 1)
            /\ ct.opened = PathsOf(ct.reads)

C14_MissingTileSkipped ==
    /\ ct.pc = "done" /\ ~ct.no_neighbors /\ ct.ext = 0
    /\ ct.dst = 1 /\ ct.pixelbuffer = 1
    /\ fs = {TilePath(0), TilePath(2)}
    /\ ct.opened = <<TilePath(0), TilePath(2)>>

IsEmptyCalled == ~ct.asked /\ ct'.asked

\* C15: is_empty answers true if and only if no tile that intersects the
\* buffered box of the destination tile exists in storage when it is called,
\* and it opens no dataset and reads nothing.
C15_IsEmptyIffNoCoveringTile ==
    [][IsEmptyCalled =>
        /\ ct'.empty <=> (\A c \in Covering : TilePath(c) \notin fs)
        /\ ct'.opened = ct.opened /\ ct'.reads = ct.reads /\ fs' = fs]_vars

C15_NeighbourMakesNonEmpty ==
    /\ ct.asked /\ ~ct.empty
    /\ ct.pc = "new" /\ ct.ext = 0
    /\ ct.pixelbuffer = 1
    /\ TilePath(ct.dst) \notin fs


\* C16: a declared output type outside the supported set is fatal to the
\* writer: when a feature has to be normalized against it, the unsupported-type
\* error reaches the caller instead of becoming a dropped feature.
C16_UnsupportedTypeIsFatal ==
    (/\ wr.pc \in {"returned", "raised"}
     /\ wr.target_type \notin SupportedTypes
     /\ \E i \in 1..Len(wr.in_data) : wr.in_data[i].type # wr.target_type) =>
        wr.pc = "raised" /\ wr.err = "TypeError"


\* C18: every feature the reader yields has a geometry of the source feature's
\* geometry type or of the multipart type of its family.
C18_YieldedTypeIsSourceType ==
    \A i \in 1..Len(rd.out) :
        rd.out[i].type \in {rd.out[i].src_type, multipart_geoms(rd.out[i].src_type)}

\* C19: with allow_multipart unset and a single-part target type,
\* clean_geometry_type never returns a multipart geometry.
C19_NoMultipartWhenDisallowed ==
    (nz.pc = "done" /\ ~nz.allow_multipart /\ nz.target_type \in SingleTypes) =>
        nz.result.type \notin MultiTypes


\* the buffered bounds of the tile touch or exceed one of the four bounds of
\* the pyramid
TouchesOrExceeds ==
    LET b == TileBounds(rw.col, rw.row, rw.pixelbuffer) IN
        \/ b.left <= PyramidBounds.left
        \/ b.bottom <= PyramidBounds.bottom
        \/ b.right >= PyramidBounds.right
        \/ b.top >= PyramidBounds.top

\* C17: a drained read_vector_window has made exactly one per-box read, over
\* the tile's own buffered bounds, when the pixelbuffer is 0 or the buffered
\* bounds neither touch nor exceed a bound of the pyramid; else one per-box
\* read for each box the splitter returned, in the splitter's order.
C17_OneReadPerBox ==
    rw.pc = "done" =>
        IF rw.pixelbuffer = 0 \/ ~TouchesOrExceeds
        THEN rw.reads = <<TileBounds(rw.col, rw.row, rw.pixelbuffer)>>
        ELSE rw.reads = rw.tile_boxes

C17_SplitReadDrained ==
    /\ rw.pc = "done"
    /\ rw.pixelbuffer = 1 /\ rw.col = 0 /\ rw.row = 1
    /\ Len(rw.tile_boxes) = 2
    /\ rw.reads = rw.tile_boxes
    /\ rw.reads # <<TileBounds(rw.col, rw.row, rw.pixelbuffer)>>

\* C20: the dataset handles of a tile read are scoped: none is open before
\* the first feature is requested, only the running per-box read holds one, so
\* at most one is open at any moment, and none is open once the sequence is
\* drained, has failed or was discarded.
C20_HandlesScoped ==
    /\ Cardinality(rw.handles) <= 1
    /\ rw.handles \subseteq {rw.k}
    /\ (rw.pc = "lazy" /\ rw.reads = <<>>) => rw.handles = {}
    /\ rw.pc \in {"done", "raised", "discarded"} => rw.handles = {}

C20_DiscardedWhileOpen ==
    /\ rw.pc = "discarded"
    /\ Len(rw.boxes) >= 2
    /\ rw.k = 2
    /\ rw.n = 1
    /\ rw.handles = {}


\* the read was made after is_empty answered true, with storage unchanged
ReadAfterEmpty ==
    /\ ct.asked /\ ct.empty
    /\ ct.ext = 0
    /\ ct.pc \in {"reading", "done", "raised"}

NothingRead == ct.pc # "raised" /\ ct.reads = <<>> /\ ct.opened = <<>>

\* C21 as stated: with storage unchanged, when is_empty has answered true the
\* read yields no features and raises no error, in neighbors mode and in
\* no_neighbors mode.
C21_EmptyThenNothingRead == ReadAfterEmpty => NothingRead

\* C21 amended: with storage unchanged, when is_empty has answered true the
\* read yields no features and raises no error in neighbors mode, and in
\* no_neighbors mode when the process pyramid has the metatiling of the
\* destination tile, so that the tile of the destination's row and column is
\* a covering tile.
C21_EmptyThenNothingReadSameGrid ==
    (ReadAfterEmpty /\ (ct.no_neighbors => ct.metatiling = 1)) => NothingRead

C21_EmptyBesideExistingTile ==
    /\ ReadAfterEmpty
    /\ ct.pc = "done"
    /\ ct.no_neighbors /\ ct.metatiling = 1
    /\ fs # {}
    /\ ct.opened = <<>>

\* C22: while an external writer creates and deletes tile files, a tile that
\* does not exist when the sequence reaches it causes no error: no composite
\* read ends in a failure to open a dataset.
C22_NoOpenFailure == ct.pc # "raised"


====
